---- MODULE Spec2Model ----
(***************************************************************************)
(* Clause retrieval and ranking pipeline of ask_gpt.py (answer_question    *)
(* and the functions it calls) together with the /ask handler of app.py.   *)
(***************************************************************************)
EXTENDS Integers, Sequences, FiniteSets, TLC

(***************************************************************************)
(* Binary64 arithmetic.  Python floats are IEEE-754 doubles; _score_clause *)
(* computes with them, so scores are modelled as doubles, operation by     *)
(* operation, with round-to-nearest-even after every operation.            *)
(* A natural number is a little-endian sequence of limbs in base 2^12      *)
(* without leading zero limbs; a double is m * 2^e with m of exactly       *)
(* MantBits bits (m = <<>> for zero).  All values are non-negative.        *)
(***************************************************************************)
LimbBits == 12

MantBits == 53

RECURSIVE Pow2(_)
Pow2(n) == IF n = 0 THEN 1 ELSE 2 * Pow2(n - 1)

LimbBase == Pow2(LimbBits)

Min(a, b) == IF a < b THEN a ELSE b

Max(a, b) == IF a > b THEN a ELSE b

RECURSIVE BNorm(_)
BNorm(x) ==
  IF x = <<>> THEN <<>>
  ELSE IF x[Len(x)] = 0 THEN BNorm(SubSeq(x, 1, Len(x) - 1)) ELSE x

RECURSIVE BAddC(_, _, _)
BAddC(a, b, carry) ==
  IF a = <<>> /\ b = <<>> THEN (IF carry = 0 THEN <<>> ELSE <<carry>>)
  ELSE LET x == IF a = <<>> THEN 0 ELSE Head(a)
           y == IF b = <<>> THEN 0 ELSE Head(b)
           s == x + y + carry
       IN <<s % LimbBase>> \o
          BAddC(IF a = <<>> THEN <<>> ELSE Tail(a),
                IF b = <<>> THEN <<>> ELSE Tail(b), s \div LimbBase)

BAdd(a, b) == BAddC(a, b, 0)

RECURSIVE BMulSmallC(_, _, _)
BMulSmallC(a, s, carry) ==
  IF a = <<>> THEN (IF carry = 0 THEN <<>> ELSE <<carry % LimbBase>> \o BMulSmallC(<<>>, s, carry \div LimbBase))
  ELSE LET p == Head(a) * s + carry
       IN <<p % LimbBase>> \o BMulSmallC(Tail(a), s, p \div LimbBase)

BMulSmall(a, s) == BNorm(BMulSmallC(a, s, 0))

Zeros(k) == [i \in 1..k |-> 0]

BShiftLimbs(a, k) == IF a = <<>> THEN <<>> ELSE Zeros(k) \o a

RECURSIVE BMulFrom(_, _, _)
BMulFrom(a, b, i) ==
  IF i > Len(b) THEN <<>>
  ELSE BAdd(BShiftLimbs(BMulSmall(a, b[i]), i - 1), BMulFrom(a, b, i + 1))

BMul(a, b) == BMulFrom(a, b, 1)

BShl(a, bits) == BShiftLimbs(BMulSmall(a, Pow2(bits % LimbBits)), bits \div LimbBits)

\* long division by a small divisor, from the most significant limb down
RECURSIVE BDivSmallFrom(_, _, _, _)
BDivSmallFrom(a, d, i, rem) ==
  IF i = 0 THEN [q |-> <<>>, r |-> rem]
  ELSE LET cur  == rem * LimbBase + a[i]
           rest == BDivSmallFrom(a, d, i - 1, cur % d)
       IN [q |-> rest.q \o <<cur \div d>>, r |-> rest.r]

BDivSmall(a, d) ==
  LET res == BDivSmallFrom(a, d, Len(a), 0)
  IN [q |-> BNorm(res.q), r |-> res.r]

BShr(a, bits) ==
  LET k == bits \div LimbBits
  IN IF k >= Len(a) THEN <<>>
     ELSE BDivSmall(SubSeq(a, k + 1, Len(a)), Pow2(bits % LimbBits)).q

RECURSIVE SmallBitLen(_)
SmallBitLen(n) == IF n = 0 THEN 0 ELSE 1 + SmallBitLen(n \div 2)

BitLen(a) == IF a = <<>> THEN 0 ELSE LimbBits * (Len(a) - 1) + SmallBitLen(a[Len(a)])

BitAt(a, i) ==
  LET k == i \div LimbBits
  IN IF k >= Len(a) THEN 0 ELSE (a[k + 1] \div Pow2(i % LimbBits)) % 2

\* some bit of a below position n is set
AnyBitBelow(a, n) ==
  LET k == n \div LimbBits
  IN \/ \E j \in 1..Min(k, Len(a)) : a[j] # 0
     \/ k < Len(a) /\ a[k + 1] % Pow2(n % LimbBits) # 0

RECURSIVE BCmpFrom(_, _, _)
BCmpFrom(a, b, i) ==
  IF i = 0 THEN 0
  ELSE IF a[i] < b[i] THEN -1
  ELSE IF a[i] > b[i] THEN 1
  ELSE BCmpFrom(a, b, i - 1)

BCmp(a, b) ==
  IF Len(a) < Len(b) THEN -1
  ELSE IF Len(a) > Len(b) THEN 1
  ELSE BCmpFrom(a, b, Len(a))

FZero == [m |-> <<>>, e |-> 0]

\* the double nearest to x * 2^e, ties to even
FRound(x, e) ==
  LET L == BitLen(x)
  IN IF L = 0 THEN FZero
     ELSE IF L <= MantBits
          THEN [m |-> BShl(x, MantBits - L), e |-> e - (MantBits - L)]
     ELSE LET s   == L - MantBits
              q   == BShr(x, s)
              rb  == BitAt(x, s - 1)
              st  == AnyBitBelow(x, s - 1)
              up  == rb = 1 /\ (st \/ BitAt(q, 0) = 1)
              q2  == IF up THEN BAdd(q, <<1>>) ELSE q
          IN IF BitLen(q2) > MantBits
             THEN [m |-> BShr(q2, 1), e |-> e + s + 1]
             ELSE [m |-> q2, e |-> e + s]

FAdd(a, b) ==
  IF a.m = <<>> THEN b
  ELSE IF b.m = <<>> THEN a
  ELSE LET e == Min(a.e, b.e)
       IN FRound(BAdd(BShl(a.m, a.e - e), BShl(b.m, b.e - e)), e)

FMul(a, b) == FRound(BMul(a.m, b.m), a.e + b.e)

DivShift == 72

\* the double nearest to p / q for naturals p and q > 0 (int / int, and
\* int / float literal with an integral value, are both correctly rounded)
FDivInt(p, q) ==
  IF p = 0 THEN FZero
  ELSE LET d == BDivSmall(BShl(<<p>>, DivShift), q)
           x == BAdd(BMulSmall(d.q, 2), IF d.r # 0 THEN <<1>> ELSE <<>>)
       IN FRound(x, 0 - DivShift - 1)

FCmp(a, b) ==
  IF a.m = <<>> /\ b.m = <<>> THEN 0
  ELSE IF a.m = <<>> THEN -1
  ELSE IF b.m = <<>> THEN 1
  ELSE IF a.e < b.e THEN -1
  ELSE IF a.e > b.e THEN 1
  ELSE BCmp(a.m, b.m)

FLt(a, b) == FCmp(a, b) < 0

(***************************************************************************)
(* Text.  A string is a sequence of one-character strings, so that         *)
(* lower(), strip(), the `in' substring test, ILIKE and the tokenizer's    *)
(* regular expression are computed character by character.                 *)
(***************************************************************************)
UpperChars == <<"A","B","C","D","E","F","G","H","I","J","K","L","M",
                "N","O","P","Q","R","S","T","U","V","W","X","Y","Z">>

LowerChars == <<"a","b","c","d","e","f","g","h","i","j","k","l","m",
                "n","o","p","q","r","s","t","u","v","w","x","y","z">>

Digits == <<"0","1","2","3","4","5","6","7","8","9">>

Whitespace == {" ", "\t", "\n"}

LowerChar(c) ==
  IF \E i \in 1..Len(UpperChars) : UpperChars[i] = c
  THEN LowerChars[CHOOSE i \in 1..Len(UpperChars) : UpperChars[i] = c]
  ELSE c

\* str.lower()
Lower(s) == [i \in 1..Len(s) |-> LowerChar(s[i])]

RECURSIVE LStrip(_)
LStrip(s) == IF s # <<>> /\ Head(s) \in Whitespace THEN LStrip(Tail(s)) ELSE s

RECURSIVE RStrip(_)
RStrip(s) ==
  IF s # <<>> /\ s[Len(s)] \in Whitespace THEN RStrip(SubSeq(s, 1, Len(s) - 1)) ELSE s

\* str.strip()
Strip(s) == RStrip(LStrip(s))

\* k in s (substring test)
IsSub(k, s) ==
  \E i \in 0..(Len(s) - Len(k)) : SubSeq(s, i + 1, i + Len(k)) = k

\* the character class [a-zA-Z0-9\-]
TokenChar(c) ==
  \/ \E i \in 1..Len(LowerChars) : LowerChars[i] = c
  \/ \E i \in 1..Len(UpperChars) : UpperChars[i] = c
  \/ \E i \in 1..Len(Digits) : Digits[i] = c
  \/ c = "-"

\* re.findall(r"[a-zA-Z0-9\-]+", s): the maximal runs, left to right;
\* cur is the run being read
RECURSIVE FindRuns(_, _)
FindRuns(s, cur) ==
  IF s = <<>> THEN (IF cur = <<>> THEN <<>> ELSE <<cur>>)
  ELSE IF TokenChar(Head(s)) THEN FindRuns(Tail(s), Append(cur, Head(s)))
  ELSE (IF cur = <<>> THEN <<>> ELSE <<cur>>) \o FindRuns(Tail(s), <<>>)

_tokenize(query) ==
  SelectSeq(FindRuns(Lower(query), <<>>), LAMBDA t : Len(t) > 2)

STOPWORDS ==
  { <<"t", "h", "e">>, <<"a">>, <<"a", "n">>, <<"a", "n", "d">>,
    <<"o", "r">>, <<"o", "f">>, <<"t", "o">>, <<"i", "n">>,
    <<"o", "n">>, <<"f", "o", "r">>, <<"w", "i", "t", "h">>,
    <<"b", "y">>, <<"i", "s">>, <<"a", "r", "e">>, <<"w", "a", "s">>,
    <<"w", "e", "r", "e">>, <<"b", "e">>, <<"c", "a", "n">>, <<"i">>,
    <<"m", "y">>, <<"o", "u", "r">>, <<"y", "o", "u", "r">>,
    <<"t", "h", "e", "i", "r">>, <<"a", "s">>, <<"i", "t">>,
    <<"t", "h", "a", "t">>, <<"t", "h", "i", "s">>, <<"d", "o">>,
    <<"d", "o", "e", "s">>, <<"d", "i", "d">>, <<"f", "r", "o", "m">>,
    <<"a", "t">>, <<"w", "e">>, <<"y", "o", "u">>,
    <<"t", "h", "e", "y">>, <<"h", "a", "v", "e">>, <<"h", "a", "s">>,
    <<"h", "a", "d">>, <<"m", "e">>, <<"u", "s">>,
    <<"t", "h", "e", "m">>, <<"a", "m">>, <<"w", "i", "l", "l">>,
    <<"s", "h", "a", "l", "l">>, <<"m", "a", "y">>,
    <<"s", "h", "o", "u", "l", "d">>, <<"w", "o", "u", "l", "d">>,
    <<"c", "o", "u", "l", "d">>, <<"n", "o", "t">>, <<"n", "o">>,
    <<"y", "e", "s">>, <<"i", "f">>, <<"b", "u", "t">>, <<"s", "o">>,
    <<"t", "h", "a", "n">>, <<"t", "h", "e", "n">>, <<"w", "h", "o">>,
    <<"w", "h", "a", "t">>, <<"w", "h", "e", "n">>,
    <<"w", "h", "e", "r", "e">>, <<"w", "h", "y">>, <<"h", "o", "w">> }

extract_keywords(question) ==
  SelectSeq(_tokenize(question), LAMBDA w : w \notin STOPWORDS)

SeqSet(s) == {s[i] : i \in 1..Len(s)}

(***************************************************************************)
(* Instant whimsy.                                                         *)
(***************************************************************************)
creator_keywords ==
  << <<"c", "r", "e", "a", "t", "o", "r">>,
     <<"d", "e", "v", "e", "l", "o", "p", "e", "r">>,
     <<"w", "h", "o", " ", "m", "a", "d", "e", " ", "y", "o", "u">>,
     <<"w", "h", "o", " ", "b", "u", "i", "l", "t", " ", "y", "o", "u">>,
     <<"h", "o", "w", " ", "w", "e", "r", "e", " ", "y", "o", "u", " ", "m", "a", "d", "e">>,
     <<"w", "h", "o", " ", "c", "r", "e", "a", "t", "e", "d", " ", "y", "o", "u">>,
     <<"w", "h", "o", " ", "d", "e", "s", "i", "g", "n", "e", "d", " ", "y", "o", "u">>,
     <<"w", "h", "o", " ", "p", "r", "o", "g", "r", "a", "m", "m", "e", "d", " ", "y", "o", "u">> >>

dragon_keywords ==
  << <<"d", "r", "a", "g", "o", "n">>,
     <<"c", "a", "s", "t", "l", "e">>,
     <<"w", "i", "z", "a", "r", "d">>,
     <<"u", "n", "i", "c", "o", "r", "n">>,
     <<"f", "a", "i", "r", "y">>,
     <<"g", "o", "b", "l", "i", "n">>,
     <<"e", "l", "f">>,
     <<"m", "o", "a", "t">>,
     <<"m", "a", "g", "i", "c">> >>

NumCreatorReplies == 5

NumDragonReplies == 3

\* variant: a keyword must equal the question instead of occurring in it
check_instant_whimsy_Equal(question_lower) ==
  IF \E i \in 1..Len(creator_keywords) : creator_keywords[i] = question_lower
  THEN {[kind |-> "creator", n |-> i] : i \in 1..NumCreatorReplies}
  ELSE IF \E i \in 1..Len(dragon_keywords) : dragon_keywords[i] = question_lower
  THEN {[kind |-> "dragon", n |-> i] : i \in 1..NumDragonReplies}
  ELSE {}

\* the set random.choice draws from, or {} for None
check_instant_whimsy(question_lower) ==
  IF \E i \in 1..Len(creator_keywords) : IsSub(creator_keywords[i], question_lower)
  THEN {[kind |-> "creator", n |-> i] : i \in 1..NumCreatorReplies}
  ELSE IF \E i \in 1..Len(dragon_keywords) : IsSub(dragon_keywords[i], question_lower)
  THEN {[kind |-> "dragon", n |-> i] : i \in 1..NumDragonReplies}
  ELSE {}

(***************************************************************************)
(* Clause records.  A dict key that may be absent, None or of another type *)
(* is a record [kind, ...]; an absent or None string field is NullText;    *)
(* an absent or None identifier is "".                                     *)
(***************************************************************************)
NullText == <<"<null>">>

PInt(n) == [kind |-> "int", n |-> n]

PNumStr(n) == [kind |-> "numstr", n |-> n]

PBadStr == [kind |-> "badstr", n |-> 0]

PNull == [kind |-> "null", n |-> 0]

PMissing == [kind |-> "missing", n |-> 0]

TList(items) == [kind |-> "list", items |-> items]

TStr == [kind |-> "str", items |-> {}]

TMissing == [kind |-> "missing", items |-> {}]

Row(id, cid, ps, ct, prec, tg, st, cl) ==
  [id |-> id, clause_id |-> cid, plain_summary |-> ps, clause_text |-> ct,
   precedence_level |-> prec, tags |-> tg, structure_type |-> st,
   concern_level |-> cl, match_source |-> ""]

\* int(x): [ok, v], ok = FALSE when it raises (TypeError on None,
\* ValueError on a non-numeric string)
IntOf(p) ==
  IF p.kind \in {"int", "numstr"} THEN [ok |-> TRUE, v |-> p.n]
  ELSE [ok |-> FALSE, v |-> 0]

\* clause.get("clause_id") or clause.get("id")
ClauseId(c) == IF c.clause_id # "" THEN c.clause_id ELSE c.id

\* x or "" for a text field
TextOr(x) == IF x = NullText THEN <<>> ELSE x

(***************************************************************************)
(* Sample text, requests and store rows.                                   *)
(***************************************************************************)
S_rental == <<"r", "e", "n", "t", "a", "l">>

S_lease == <<"l", "e", "a", "s", "e">>

S_guest_house == <<"g", "u", "e", "s", "t", " ", "h", "o", "u", "s", "e">>

S_tenant == <<"t", "e", "n", "a", "n", "t">>

S_fence == <<"f", "e", "n", "c", "e">>

S_Fence == <<"F", "e", "n", "c", "e">>

S_height == <<"h", "e", "i", "g", "h", "t">>

S_high == <<"h", "i", "g", "h">>

S_wall_rule == <<"W", "a", "l", "l", " ", "r", "u", "l", "e">>

S_height_cap == <<"H", "e", "i", "g", "h", "t", " ", "c", "a", "p">>

S_fence_height == <<"F", "e", "n", "c", "e", " ", "h", "e", "i", "g", "h", "t">>

S_shed == <<"s", "h", "e", "d">>

S_Shed == <<"S", "h", "e", "d">>

S_the_fence == <<"t", "h", "e", " ", "f", "e", "n", "c", "e">>

S_gate == <<"G", "a", "t", "e">>

S_gate_latch == <<"G", "a", "t", "e", " ", "l", "a", "t", "c", "h">>

S_rental_terms == <<"R", "e", "n", "t", "a", "l", " ", "t", "e", "r", "m", "s">>

S_fence_shed == <<"f", "e", "n", "c", "e", " ", "s", "h", "e", "d">>

Q_who_made_you == <<"w", "h", "o", " ", "m", "a", "d", "e", " ", "y", "o", "u">>

Q_my_shelf == <<" ", "M", "y", " ", "S", "H", "E", "L", "F", " ">>

Q_fence_height == <<"F", "e", "n", "c", "e", " ", "h", "e", "i", "g", "h", "t", "?">>

Q_is_it_ok == <<"i", "s", " ", "i", "t", " ", "o", "k">>

Q_the_shed_shed == <<"t", "h", "e", " ", "s", "h", "e", "d", " ", "s", "h", "e", "d">>

Q_empty == <<>>

\* the optional parameters of answer_question; {} and <<>> stand for None
NoFilters == [tags |-> {}, structure_type |-> <<>>, concern_level |-> <<>>]

TagFilter == [tags |-> {S_fence}, structure_type |-> <<>>, concern_level |-> <<>>]

TypeFilter == [tags |-> {}, structure_type |-> S_fence, concern_level |-> S_high]

Request(q, f) == [question |-> q, filters |-> f]

Requests ==
  { Request(Q_who_made_you, NoFilters),
    Request(Q_my_shelf, NoFilters),
    Request(Q_fence_height, NoFilters),
    Request(Q_fence_height, TagFilter),
    Request(Q_fence_height, TypeFilter),
    Request(Q_is_it_ok, NoFilters),
    Request(Q_the_shed_shed, NoFilters),
    Request(Q_empty, NoFilters) }

general_tags == {S_rental, S_lease, S_guest_house, S_tenant}

Universe ==
  << Row("r1", "c1", S_wall_rule, NullText, PInt(1),
         TList(general_tags \cup {S_Fence}), S_fence, S_high),
     Row("r2", "c2", S_height_cap, <<>>, PInt(0),
         TList(general_tags), NullText, NullText),
     Row("r3", "c3", S_fence_height, S_shed, PNumStr(9),
         TList(general_tags \cup {S_fence, S_height}), S_fence, S_high),
     Row("r4", "", S_Shed, S_the_fence, PMissing,
         TList(general_tags), NullText, NullText),
     Row("r5", "c5", S_gate, S_gate_latch, PInt(12),
         TList(general_tags), S_fence, NullText),
     Row("r6", "c6", S_rental_terms, S_fence, PInt(12),
         TList(general_tags), NullText, S_high),
     Row("r7", "c1", S_Fence, <<>>, PBadStr, TMissing, NullText, NullText),
     Row("r8", "c8", S_fence_shed, <<>>, PNull, TStr, S_fence, S_high) >>

S_injected_summary ==
  << "P", "l", "e", "a", "s", "e", " ", "c", "h", "e", "c", "k", " ", 
     "y", "o", "u", "r", " ", "H", "O", "A", " ", "d", "o", "c", "u", 
     "m", "e", "n", "t", "s", " ", "o", "r", " ", "A", "R", "C", " ", 
     "f", "o", "r", " ", "s", "p", "e", "c", "i", "f", "i", "c", " ", 
     "r", "e", "n", "t", "a", "l", " ", "r", "u", "l", "e", "s", "." >>

\* the synthetic clause of fetch_soft_fallback_clauses (no id, tags,
\* structure_type or concern_level key)
InjectedClause ==
  [id |-> "", clause_id |-> "FALLBACK_GENERAL",
   plain_summary |-> S_injected_summary, clause_text |-> <<>>,
   precedence_level |-> PNumStr(9), tags |-> TMissing,
   structure_type |-> NullText, concern_level |-> NullText,
   match_source |-> "Injected Fallback"]

(***************************************************************************)
(* The relational store (supabase.from_("clauses")): rows in table order,  *)
(* filters, and a row limit.                                               *)
(***************************************************************************)
Limit(rows, n) == SubSeq(rows, 1, Min(n, Len(rows)))

\* column ILIKE %k% (false on NULL)
ILike(field, k) == field # NullText /\ IsSub(Lower(k), Lower(field))

\* .contains("tags", tags)
ContainsTags(row, tags) == row.tags.kind = "list" /\ tags \subseteq row.tags.items

\* the substring patterns of the keyword leg: every distinct keyword, or
\* the whole question when no keyword survived
Patterns(question, keywords) ==
  IF keywords # <<>> THEN SeqSet(keywords) ELSE {question}

or_query_limit == 10

\* .or_(or_filter) [.contains] [.eq] [.eq] .limit(10)
OrFilterQuery(rows, patterns, tags, structure_type, concern_level) ==
  Limit(SelectSeq(rows, LAMBDA r :
          /\ \E k \in patterns : ILike(r.plain_summary, k) \/ ILike(r.clause_text, k)
          /\ tags # {} => ContainsTags(r, tags)
          /\ structure_type # <<>> => r.structure_type = structure_type
          /\ concern_level # <<>> => r.concern_level = concern_level),
        or_query_limit)

ilike_query_limit == 10

\* .ilike("plain_summary", like_k).limit(10) and .ilike("clause_text", like_k).limit(10)
IlikeSummaryQuery(rows, k) ==
  Limit(SelectSeq(rows, LAMBDA r : ILike(r.plain_summary, k)), ilike_query_limit)

IlikeTextQuery(rows, k) ==
  Limit(SelectSeq(rows, LAMBDA r : ILike(r.clause_text, k)), ilike_query_limit)

soft_fallback_limit == 5

\* .contains("tags", general_tags).limit(5)
GeneralTagsQuery(rows) ==
  Limit(SelectSeq(rows, LAMBDA r : ContainsTags(r, general_tags)), soft_fallback_limit)

\* clause["match_source"] = source; clause["clause_id"] = clause_id or id
Stamp(rows, source) ==
  [i \in 1..Len(rows) |->
     [rows[i] EXCEPT !.match_source = source, !.clause_id = ClauseId(rows[i])]]

\* the merge loop of the older-client path: first row seen of each identifier
RECURSIVE MergeRows(_, _, _)
MergeRows(rows, seen, merged) ==
  IF rows = <<>> THEN merged
  ELSE LET cid == ClauseId(Head(rows))
       IN IF cid \in seen THEN MergeRows(Tail(rows), seen, merged)
          ELSE MergeRows(Tail(rows), seen \cup {cid}, Append(merged, Head(rows)))

RECURSIVE Flatten(_)
Flatten(chunks) == IF chunks = <<>> THEN <<>> ELSE Head(chunks) \o Flatten(Tail(chunks))

(***************************************************************************)
(* Scoring.                                                                *)
(***************************************************************************)
VectorWeight == FDivInt(1, 1)

\* variant: keyword matches weighted like vector matches
KeywordWeight_AsVector == FDivInt(1, 1)

KeywordWeight == FDivInt(7, 10)

CoverageWeight == FDivInt(6, 10)

PrecedenceWeight == FDivInt(1, 10)

TagWeight == FDivInt(5, 100)

Hits(text, tokens) == Cardinality({i \in 1..Len(tokens) : IsSub(tokens[i], Lower(text))})

_hit_ratio(text, tokens) ==
  IF text = <<>> THEN FZero
  ELSE FDivInt(Hits(text, tokens), Max(1, Len(tokens)))

\* max(0, 10 - int(precedence)), and 0 when int() raises; the key is read
\* with .get("precedence_level"), so an absent key is None
PrecedencePoints(clause) ==
  LET p == IF clause.precedence_level.kind = "missing" THEN PNull
           ELSE clause.precedence_level
      v == IntOf(p)
  IN IF v.ok THEN Max(0, 10 - v.v) ELSE 0

\* len(set(tokens) & {str(t).lower() for t in tags}), 0 unless tags is a
\* list and tokens is non-empty
TagHits(clause, tokens) ==
  IF clause.tags.kind = "list" /\ tokens # <<>>
  THEN Cardinality(SeqSet(tokens) \cap {Lower(t) : t \in clause.tags.items})
  ELSE 0

_score_clause(clause, tokens, source_weight) ==
  LET both             == TextOr(clause.plain_summary) \o <<" ">> \o TextOr(clause.clause_text)
      token_cov        == _hit_ratio(both, tokens)
      precedence_bonus == FDivInt(PrecedencePoints(clause), 100)
      tag_overlap      == FDivInt(TagHits(clause, tokens), 50)
  IN FAdd(FAdd(FAdd(source_weight,
                    FMul(CoverageWeight, token_cov)),
               FMul(PrecedenceWeight, precedence_bonus)),
          FMul(TagWeight, tag_overlap))

\* the scored list before sorting: vector matches, then keyword matches
ScoreAll(vm, fm, tokens) ==
  [i \in 1..Len(vm) |-> [score |-> _score_clause(vm[i], tokens, VectorWeight), c |-> vm[i]]]
  \o
  [i \in 1..Len(fm) |-> [score |-> _score_clause(fm[i], tokens, KeywordWeight), c |-> fm[i]]]

\* variant: an unstable sort, an element goes in front of its equals
InsertDesc_Unstable(sorted, x) ==
  LET smaller == {j \in 1..Len(sorted) : ~FLt(x.score, sorted[j].score)}
      pos     == IF smaller = {} THEN Len(sorted) + 1
                 ELSE CHOOSE j \in smaller : \A k \in smaller : j <= k
  IN SubSeq(sorted, 1, pos - 1) \o <<x>> \o SubSeq(sorted, pos, Len(sorted))

\* list.sort(key=score, reverse=True) is stable: an element goes in front
\* of the first element with a strictly smaller score
InsertDesc(sorted, x) ==
  LET smaller == {j \in 1..Len(sorted) : FLt(sorted[j].score, x.score)}
      pos     == IF smaller = {} THEN Len(sorted) + 1
                 ELSE CHOOSE j \in smaller : \A k \in smaller : j <= k
  IN SubSeq(sorted, 1, pos - 1) \o <<x>> \o SubSeq(sorted, pos, Len(sorted))

RECURSIVE SortDescFrom(_, _, _)
SortDescFrom(scored, i, sorted) ==
  IF i > Len(scored) THEN sorted
  ELSE SortDescFrom(scored, i + 1, InsertDesc(sorted, scored[i]))

SortDesc(scored) == SortDescFrom(scored, 1, <<>>)

top_k == 5

\* the dedupe loop: first occurrence of each identifier, stop at five
RECURSIVE TakeTop(_, _, _, _)
TakeTop(sorted, i, seen, top) ==
  IF i > Len(sorted) THEN top
  ELSE LET cid  == ClauseId(sorted[i].c)
           top2 == IF cid \notin seen THEN Append(top, sorted[i].c) ELSE top
       IN IF Len(top2) >= top_k THEN top2
          ELSE TakeTop(sorted, i + 1, seen \cup {cid}, top2)

\* variant: the first five of the sorted list, repeats included
SelectTop_NoDedupe(sorted) ==
  [i \in 1..Min(top_k, Len(sorted)) |-> sorted[i].c]

SelectTop(sorted) == TakeTop(sorted, 1, {}, <<>>)

(***************************************************************************)
(* Formatting.                                                             *)
(***************************************************************************)
INCLUDE_FULL_TEXT_TOP_N == 2

INCLUDE_FULL_TEXT_MAX_CHARS == 1200

DefaultPrecedence == 99

\* "..." stands for the one-character ellipsis
_trim(text, max_chars) ==
  IF text = <<>> THEN <<>>
  ELSE LET t == Strip(text)
       IN IF Len(t) <= max_chars THEN t ELSE Append(SubSeq(t, 1, max_chars), "...")

\* int(c.get("precedence_level", 99))
SortKey(c) ==
  IntOf(IF c.precedence_level.kind = "missing" THEN PInt(DefaultPrecedence)
        ELSE c.precedence_level)

\* variant: an unstable sort, an element goes in front of its equals
InsertAsc_Unstable(sorted, c) ==
  LET larger == {j \in 1..Len(sorted) : SortKey(sorted[j]).v >= SortKey(c).v}
      pos    == IF larger = {} THEN Len(sorted) + 1
                ELSE CHOOSE j \in larger : \A k \in larger : j <= k
  IN SubSeq(sorted, 1, pos - 1) \o <<c>> \o SubSeq(sorted, pos, Len(sorted))

\* sorted(..., key=...) is stable: an element goes in front of the first
\* element with a strictly larger key
InsertAsc(sorted, c) ==
  LET larger == {j \in 1..Len(sorted) : SortKey(sorted[j]).v > SortKey(c).v}
      pos    == IF larger = {} THEN Len(sorted) + 1
                ELSE CHOOSE j \in larger : \A k \in larger : j <= k
  IN SubSeq(sorted, 1, pos - 1) \o <<c>> \o SubSeq(sorted, pos, Len(sorted))

RECURSIVE SortAscFrom(_, _, _)
SortAscFrom(clauses, i, sorted) ==
  IF i > Len(clauses) THEN sorted
  ELSE SortAscFrom(clauses, i + 1, InsertAsc(sorted, clauses[i]))

\* the sort raises when int() raises on some key
FormatRaises(clauses) == \E i \in 1..Len(clauses) : ~SortKey(clauses[i]).ok

\* the entries of the rendered block, in order: index, identifier,
\* provenance and the excerpt shown (empty when none is shown)
format_clauses_for_prompt(clauses) ==
  LET sorted_clauses == SortAscFrom(clauses, 1, <<>>)
  IN [idx \in 1..Len(sorted_clauses) |->
        LET c == sorted_clauses[idx]
            clause_text_full == TextOr(c.clause_text)
        IN [idx |-> idx, clause_id |-> c.clause_id, source |-> c.match_source,
            excerpt |-> IF clause_text_full # <<>> /\ idx <= INCLUDE_FULL_TEXT_TOP_N
                        THEN _trim(clause_text_full, INCLUDE_FULL_TEXT_MAX_CHARS)
                        ELSE <<>>]]

(***************************************************************************)
(* One run of the /ask handler: ask -> answer_question.                    *)
(***************************************************************************)
VARIABLES
  pc,               \* position in answer_question / fetch_matching_clauses
  question,         \* the question as received
  filters,          \* tags, structure_type, concern_level
  store,            \* rows of the clauses table, in table order
  tokens,           \* _tokenize(question)
  keywords,         \* extract_keywords(question)
  vector_matches,   \* stamped rows of the semantic leg
  fallback_matches, \* stamped rows of the keyword leg
  keyword_path,     \* "or_filter" or "older_client", once the keyword leg ran
  pending,          \* older-client path: patterns still to query
  chunks,           \* older-client path: query results so far
  scored,           \* list of [score, c]
  clauses,          \* the clause list of answer_question
  no_matches,       \* the flag handed to build_gpt_prompt
  clause_text,      \* the rendered block
  calls,            \* external calls issued so far, each [svc, ok]
  response          \* what ask returns

vars ==
  <<pc, question, filters, store, tokens, keywords, vector_matches,
    fallback_matches, keyword_path, pending, chunks, scored, clauses,
    no_matches, clause_text, calls, response>>

\* most rows of the clauses table
MaxStore == 8

\* most rows the semantic search returns
MaxVector == 2

match_count == 10

\* the table holds the first n sample rows
Stores == {SubSeq(Universe, 1, n) : n \in 0..Min(MaxStore, Len(Universe))}

\* what match_clauses may return: rows of the table, in any order, repeats
\* included, at most match_count of them
VectorResults(rows) ==
  UNION {{[i \in 1..k |-> rows[f[i]]] : f \in [1..k -> 1..Len(rows)]} :
           k \in 0..Min(MaxVector, match_count)}

NoResponse == [status |-> 0, kind |-> "none", reply |-> [kind |-> "none", n |-> 0]]

ErrorResponse == [status |-> 500, kind |-> "error", reply |-> [kind |-> "none", n |-> 0]]

AnswerResponse == [status |-> 200, kind |-> "answer", reply |-> [kind |-> "none", n |-> 0]]

WhimsyResponse(r) == [status |-> 200, kind |-> "whimsy", reply |-> r]

Call(svc, ok) == [svc |-> svc, ok |-> ok]

Init ==
  /\ pc = "Start"
  /\ \E r \in Requests : question = r.question /\ filters = r.filters
  /\ store \in Stores
  /\ tokens = <<>>
  /\ keywords = <<>>
  /\ vector_matches = <<>>
  /\ fallback_matches = <<>>
  /\ keyword_path = "none"
  /\ pending = {}
  /\ chunks = <<>>
  /\ scored = <<>>
  /\ clauses = <<>>
  /\ no_matches = FALSE
  /\ clause_text = <<>>
  /\ calls = <<>>
  /\ response = NoResponse

\* an exception leaves answer_question; ask answers 500
Raise ==
  /\ pc' = "Failed"
  /\ response' = ErrorResponse

\* answer_question, lines 320-322
WhimsyCheck ==
  /\ pc = "Start"
  /\ LET replies == check_instant_whimsy(Strip(Lower(question)))
     IN IF replies # {}
        THEN /\ \E r \in replies : response' = WhimsyResponse(r)
             /\ pc' = "Done"
        ELSE /\ pc' = "Embed"
             /\ response' = response
  /\ UNCHANGED <<question, filters, store, tokens, keywords, vector_matches,
                 fallback_matches, keyword_path, pending, chunks, scored,
                 clauses, no_matches, clause_text, calls>>

\* fetch_matching_clauses, lines 185-193
Embed ==
  /\ pc = "Embed"
  /\ tokens' = _tokenize(question)
  /\ keywords' = extract_keywords(question)
  /\ \E ok \in BOOLEAN :
       /\ calls' = Append(calls, Call("embedding", ok))
       /\ IF ok THEN pc' = "Search" /\ response' = response ELSE Raise
  /\ UNCHANGED <<question, filters, store, vector_matches, fallback_matches,
                 keyword_path, pending, chunks, scored, clauses, no_matches,
                 clause_text>>

\* lines 195-204
Search ==
  /\ pc = "Search"
  /\ \E ok \in BOOLEAN :
       /\ calls' = Append(calls, Call("search", ok))
       /\ IF ok
          THEN /\ \E rows \in VectorResults(store) :
                    vector_matches' = Stamp(rows, "Vector Match")
               /\ pc' = "Keyword"
               /\ response' = response
          ELSE /\ vector_matches' = vector_matches
               /\ Raise
  /\ UNCHANGED <<question, filters, store, tokens, keywords, fallback_matches,
                 keyword_path, pending, chunks, scored, clauses, no_matches,
                 clause_text>>

\* lines 209-240 and 250-251: the or_ query.  It either returns rows, or
\* raises in execute() (a failed store call), or raises before anything is
\* sent (a client without or_); both exceptions enter the except branch.
KeywordQuery ==
  /\ pc = "Keyword"
  /\ \E outcome \in {"rows", "store_error", "no_or_filter"} :
       /\ calls' = IF outcome = "no_or_filter" THEN calls
                   ELSE Append(calls, Call("store", outcome = "rows"))
       /\ IF outcome = "rows"
          THEN /\ fallback_matches' =
                    Stamp(OrFilterQuery(store, Patterns(question, keywords),
                                        filters.tags, filters.structure_type,
                                        filters.concern_level),
                          "Keyword Fallback")
               /\ keyword_path' = "or_filter"
               /\ pending' = pending
               /\ pc' = "Score"
          ELSE /\ fallback_matches' = fallback_matches
               /\ keyword_path' = "older_client"
               /\ pending' = Patterns(question, keywords)
               /\ pc' = "OlderClient"
  /\ UNCHANGED <<question, filters, store, tokens, keywords, vector_matches,
                 chunks, scored, clauses, no_matches, clause_text, response>>

\* lines 244-249 / 251-255: the two ilike queries for one pattern; set
\* iteration order is not fixed, so the next pattern is any pending one
OlderClientQuery ==
  /\ pc = "OlderClient"
  /\ pending # {}
  /\ \E k \in pending, outcome \in {"rows", "first_fails", "second_fails"} :
       /\ calls' = calls \o
            (IF outcome = "first_fails" THEN <<Call("store", FALSE)>>
             ELSE <<Call("store", TRUE), Call("store", outcome = "rows")>>)
       /\ IF outcome = "rows"
          THEN /\ chunks' = chunks \o <<IlikeSummaryQuery(store, k), IlikeTextQuery(store, k)>>
               /\ pending' = pending \ {k}
               /\ pc' = pc
               /\ response' = response
          ELSE /\ chunks' = chunks
               /\ pending' = pending
               /\ Raise
  /\ UNCHANGED <<question, filters, store, tokens, keywords, vector_matches,
                 fallback_matches, keyword_path, scored, clauses, no_matches,
                 clause_text>>

\* lines 257-268
OlderClientMerge ==
  /\ pc = "OlderClient"
  /\ pending = {}
  /\ fallback_matches' = Stamp(MergeRows(Flatten(chunks), {}, <<>>), "Keyword Fallback")
  /\ pc' = "Score"
  /\ UNCHANGED <<question, filters, store, tokens, keywords, vector_matches,
                 keyword_path, pending, chunks, scored, clauses, no_matches,
                 clause_text, calls, response>>

\* lines 271-275
Score ==
  /\ pc = "Score"
  /\ scored' = ScoreAll(vector_matches, fallback_matches, tokens)
  /\ pc' = "Select"
  /\ UNCHANGED <<question, filters, store, tokens, keywords, vector_matches,
                 fallback_matches, keyword_path, pending, chunks, clauses,
                 no_matches, clause_text, calls, response>>

\* variant: answer_question without the empty check
Select_NoEmptyCheck ==
  /\ pc = "Select"
  /\ scored' = SortDesc(scored)
  /\ clauses' = SelectTop(scored')
  /\ pc' = "Format"
  /\ UNCHANGED <<question, filters, store, tokens, keywords, vector_matches,
                 fallback_matches, keyword_path, pending, chunks, no_matches,
                 clause_text, calls, response>>

\* lines 277-289 and 324-327
Select ==
  /\ pc = "Select"
  /\ scored' = SortDesc(scored)
  /\ clauses' = SelectTop(scored')
  /\ pc' = IF clauses' = <<>> THEN "SoftFallback" ELSE "Format"
  /\ UNCHANGED <<question, filters, store, tokens, keywords, vector_matches,
                 fallback_matches, keyword_path, pending, chunks, no_matches,
                 clause_text, calls, response>>

\* variant: no synthetic clause
fetch_soft_fallback_clauses_NoInjection(rows) ==
  Stamp(rows, "General Soft Fallback")

\* what fetch_soft_fallback_clauses returns for the rows of its query
fetch_soft_fallback_clauses(rows) ==
  LET fallback_data == Stamp(rows, "General Soft Fallback")
  IN IF fallback_data = <<>> THEN <<InjectedClause>> ELSE fallback_data

\* lines 328-329
SoftFallback ==
  /\ pc = "SoftFallback"
  /\ \E ok \in BOOLEAN :
       /\ calls' = Append(calls, Call("store", ok))
       /\ IF ok
          THEN /\ clauses' = fetch_soft_fallback_clauses(GeneralTagsQuery(store))
               /\ no_matches' = TRUE
               /\ pc' = "Format"
               /\ response' = response
          ELSE /\ clauses' = clauses
               /\ no_matches' = no_matches
               /\ Raise
  /\ UNCHANGED <<question, filters, store, tokens, keywords, vector_matches,
                 fallback_matches, keyword_path, pending, chunks, scored,
                 clause_text>>

\* line 331
Format ==
  /\ pc = "Format"
  /\ IF FormatRaises(clauses)
     THEN /\ clause_text' = clause_text
          /\ Raise
     ELSE /\ clause_text' = format_clauses_for_prompt(clauses)
          /\ pc' = "Generate"
          /\ response' = response
  /\ UNCHANGED <<question, filters, store, tokens, keywords, vector_matches,
                 fallback_matches, keyword_path, pending, chunks, scored,
                 clauses, no_matches, calls>>

\* lines 332-355, and ask
Generate ==
  /\ pc = "Generate"
  /\ \E ok \in BOOLEAN :
       /\ calls' = Append(calls, Call("generation", ok))
       /\ IF ok THEN pc' = "Done" /\ response' = AnswerResponse ELSE Raise
  /\ UNCHANGED <<question, filters, store, tokens, keywords, vector_matches,
                 fallback_matches, keyword_path, pending, chunks, scored,
                 clauses, no_matches, clause_text>>

Next ==
  \/ WhimsyCheck
  \/ Embed
  \/ Search
  \/ KeywordQuery
  \/ OlderClientQuery
  \/ OlderClientMerge
  \/ Score
  \/ Select
  \/ SoftFallback
  \/ Format
  \/ Generate

Spec == Init /\ [][Next]_vars

TypeOK ==
  /\ pc \in {"Start", "Embed", "Search", "Keyword", "OlderClient", "Score",
             "Select", "SoftFallback", "Format", "Generate", "Done", "Failed"}
  /\ Len(clauses) <= Max(top_k, soft_fallback_limit)

(***************************************************************************)
(* Properties.                                                             *)
(***************************************************************************)
Ids(rows) == {ClauseId(rows[i]) : i \in 1..Len(rows)}

DistinctIds(rows) ==
  \A i, j \in 1..Len(rows) : i # j => ClauseId(rows[i]) # ClauseId(rows[j])

\* fetch_matching_clauses has just returned: clauses is its result
Selected == pc \in {"Format", "SoftFallback"} /\ no_matches = FALSE

\* C1: the list returned by fetch_matching_clauses has at most five
\* entries and no two of them share a clause_id.
C1_TopFiveDistinct ==
  Selected => Len(clauses) <= 5 /\ DistinctIds(clauses)

\* five clauses were selected out of more than five candidates, some of
\* which shared an identifier
C1_Witness ==
  /\ Selected
  /\ Len(clauses) = 5
  /\ Cardinality(Ids([i \in 1..Len(scored) |-> scored[i].c])) > 5
  /\ \E i, j \in 1..Len(scored) :
       i # j /\ ClauseId(scored[i].c) = ClauseId(scored[j].c)

\* C2: the text-generation call is only made with at least one grounding
\* clause; the soft fallback is taken, and no_matches set, exactly when the
\* selection is empty.
C2_GenerateGrounded ==
  /\ (pc = "Generate" \/ \E i \in 1..Len(calls) : calls[i].svc = "generation")
       => Len(clauses) >= 1
  /\ pc \in {"Format", "Generate"} => (no_matches <=> SelectTop(scored) = <<>>)

\* generation is reached through the soft fallback on an empty table
C2_Witness ==
  /\ pc = "Generate"
  /\ no_matches
  /\ store = <<>>
  /\ Len(clauses) = 1

\* the rows of the table that carry every general tag
GeneralRows == SelectSeq(store, LAMBDA r : ContainsTags(r, general_tags))

\* C3: the soft fallback never returns an empty list: the rows of the tag
\* query (at most five, each stamped as soft fallback) when there are any,
\* and otherwise exactly one synthetic clause stamped as injected.
C3_SoftFallbackNonEmpty ==
  no_matches =>
    /\ Len(clauses) >= 1
    /\ IF GeneralRows # <<>>
       THEN /\ Len(clauses) = Min(5, Len(GeneralRows))
            /\ \A i \in 1..Len(clauses) :
                 /\ clauses[i].match_source = "General Soft Fallback"
                 /\ clauses[i].id = GeneralRows[i].id
                 /\ clauses[i].clause_id = ClauseId(GeneralRows[i])
       ELSE /\ Len(clauses) = 1
            /\ clauses[1].match_source = "Injected Fallback"
            /\ clauses[1].clause_id = "FALLBACK_GENERAL"

\* the soft fallback ran on a table without a generally tagged row
C3_Witness ==
  /\ no_matches
  /\ pc = "Format"
  /\ GeneralRows = <<>>
  /\ clauses[1].match_source = "Injected Fallback"

MatchesAny(kws, q) == \E i \in 1..Len(kws) : IsSub(kws[i], q)

\* C4: a question whose lowercased, trimmed text contains a creator keyword
\* (or else a playful keyword) is answered at once with a canned reply of
\* that set and no external call; any other question goes on to retrieval.
C4_WhimsyShortCircuit ==
  LET q == Strip(Lower(question))
  IN pc # "Start" =>
       IF MatchesAny(creator_keywords, q)
       THEN /\ pc = "Done" /\ calls = <<>>
            /\ response.kind = "whimsy" /\ response.reply.kind = "creator"
            /\ response.reply.n \in 1..NumCreatorReplies
       ELSE IF MatchesAny(dragon_keywords, q)
       THEN /\ pc = "Done" /\ calls = <<>>
            /\ response.kind = "whimsy" /\ response.reply.kind = "dragon"
            /\ response.reply.n \in 1..NumDragonReplies
       ELSE /\ response.kind # "whimsy"
            /\ pc = "Embed" \/ Len(calls) >= 1

\* "who made you" was answered with a creator reply
C4_Witness ==
  /\ question = Q_who_made_you
  /\ pc = "Done"
  /\ response.kind = "whimsy"
  /\ response.reply.kind = "creator"
  /\ calls = <<>>

\* C5: after the first failing external call no further external call is
\* issued, and the run has ended with the generic failure.
C5_FailurePropagates ==
  /\ \A i \in 1..Len(calls) : ~calls[i].ok => i = Len(calls)
  /\ (\E i \in 1..Len(calls) : ~calls[i].ok) =>
        pc = "Failed" /\ response = ErrorResponse

\* the part of a score that does not depend on the leg, as an exact
\* multiple of 1 / (1000 * max(1, len(tokens))):
\* 0.6 * coverage + 0.1 * precedence bonus + 0.05 * tag overlap
ExactExtra(c) ==
  LET n == Max(1, Len(tokens))
      both == TextOr(c.plain_summary) \o <<" ">> \o TextOr(c.clause_text)
  IN 600 * Hits(both, tokens) + n * PrecedencePoints(c) + n * TagHits(c, tokens)

\* 0.3, the gap between the two source weights, in the same unit
ExactGap == 300 * Max(1, Len(tokens))

BothLegsSorted ==
  /\ pc = "Format"
  /\ no_matches = FALSE
  /\ vector_matches # <<>>
  /\ fallback_matches # <<>>

\* C6 as stated: with candidates from both legs, the first item of the
\* sorted list is a vector match whenever some vector match S is such that
\* no keyword match exceeds S by more than 0.3 in the leg-independent part
\* of the score, a gap of exactly 0.3 included.
C6_SemanticFirstUpToGap ==
  BothLegsSorted =>
    ((\E i \in 1..Len(vector_matches) : \A j \in 1..Len(fallback_matches) :
         ExactExtra(fallback_matches[j]) - ExactExtra(vector_matches[i]) <= ExactGap)
     => scored[1].c.match_source = "Vector Match")

\* C6 amended: the same when every keyword match exceeds S by less than 0.3.
C6_SemanticFirstBelowGap ==
  BothLegsSorted =>
    ((\E i \in 1..Len(vector_matches) : \A j \in 1..Len(fallback_matches) :
         ExactExtra(fallback_matches[j]) - ExactExtra(vector_matches[i]) < ExactGap)
     => scored[1].c.match_source = "Vector Match")

\* a vector match is first although a keyword match has the larger
\* leg-independent part, by less than 0.3
C6_Witness ==
  /\ BothLegsSorted
  /\ \E i \in 1..Len(vector_matches) :
       /\ \A j \in 1..Len(fallback_matches) :
            ExactExtra(fallback_matches[j]) - ExactExtra(vector_matches[i]) < ExactGap
       /\ \E j \in 1..Len(fallback_matches) :
            ExactExtra(fallback_matches[j]) > ExactExtra(vector_matches[i])
  /\ scored[1].c.match_source = "Vector Match"

\* the position in clauses of the clause an entry of the block renders
ClauseOf(e) == CHOOSE i \in 1..Len(clauses) : clauses[i].clause_id = e.clause_id

\* the precedence a clause is ordered by: its precedence_level, 99 if absent
OrderKey(c) ==
  IF c.precedence_level.kind = "missing" THEN 99 ELSE c.precedence_level.n

\* C7: the block renders every selected clause once, numbered in ascending
\* order of precedence_level (99 when absent), clauses of equal precedence
\* in their order of selection; the excerpts go to the first two of that
\* order.
C7_FormatByPrecedence ==
  pc = "Generate" =>
    /\ Len(clause_text) = Len(clauses)
    /\ {e.clause_id : e \in SeqSet(clause_text)} = Ids(clauses)
    /\ \A a \in 1..Len(clause_text) :
         /\ clause_text[a].idx = a
         /\ clause_text[a].source = clauses[ClauseOf(clause_text[a])].match_source
         /\ clause_text[a].excerpt # <<>> <=>
              (a <= 2 /\ TextOr(clauses[ClauseOf(clause_text[a])].clause_text) # <<>>)
    /\ \A a, b \in 1..Len(clause_text) :
         a < b =>
           LET i == ClauseOf(clause_text[a])
               j == ClauseOf(clause_text[b])
           IN \/ OrderKey(clauses[i]) < OrderKey(clauses[j])
              \/ OrderKey(clauses[i]) = OrderKey(clauses[j]) /\ i < j

\* a block whose order differs from the selection order, with two clauses
\* of equal precedence and one without precedence_level rendered last
C7_Witness ==
  /\ pc = "Generate"
  /\ Len(clauses) >= 3
  /\ \E i, j \in 1..Len(clauses) :
       i < j /\ OrderKey(clauses[i]) > OrderKey(clauses[j])
  /\ \E i, j \in 1..Len(clauses) :
       /\ i < j
       /\ clauses[i].precedence_level.kind = "int"
       /\ clauses[j].precedence_level.kind = "int"
       /\ OrderKey(clauses[i]) = OrderKey(clauses[j])
  /\ \E i \in 1..Len(clauses) :
       /\ clauses[i].precedence_level.kind = "missing"
       /\ clause_text[Len(clause_text)].clause_id = clauses[i].clause_id

\* C8: a malformed precedence_level or tags value never makes the run
\* fail: a run only fails after a failed external call.
C8_MalformedFieldsNeverRaise ==
  pc = "Failed" => \E i \in 1..Len(calls) : ~calls[i].ok

\* indices of the candidates of the unsorted list that share an identifier
SameId(list, i) == {j \in 1..Len(list) : ClauseId(list[j].c) = ClauseId(list[i].c)}

\* candidate i is the representative of its identifier: no candidate with
\* that identifier scores higher, and none scoring as high comes earlier
Representative(list, i) ==
  \A j \in SameId(list, i) :
    \/ FCmp(list[j].score, list[i].score) < 0
    \/ FCmp(list[j].score, list[i].score) = 0 /\ j >= i

Representatives(list) == {i \in 1..Len(list) : Representative(list, i)}

\* representative i ranks before representative j
RanksBefore(list, i, j) ==
  \/ FCmp(list[i].score, list[j].score) > 0
  \/ FCmp(list[i].score, list[j].score) = 0 /\ i < j

\* C9: the selection is the representatives of the (at most) five best
\* identifiers, best first, candidates of equal score in concatenation
\* order (vector matches before keyword matches, each leg in its order).
C9_SelectBestRepresentatives ==
  [][pc = "Select" =>
       LET reps == Representatives(scored)
           rank(i) == Cardinality({j \in reps : RanksBefore(scored, j, i)}) + 1
       IN /\ Len(clauses') = Min(5, Cardinality(reps))
          /\ \A i \in reps :
               rank(i) <= 5 => clauses'[rank(i)] = scored[i].c
          /\ \A a, b \in 1..Len(scored') :
               a < b => FCmp(scored'[a].score, scored'[b].score) >= 0]_vars

\* five clauses selected, among them two of equal score, while a vector
\* match and a keyword match shared an identifier
C9_Witness ==
  /\ Selected
  /\ Len(clauses) = 5
  /\ \E i, j \in 1..Len(scored) :
       /\ i < j
       /\ FCmp(scored[i].score, scored[j].score) = 0
       /\ ClauseId(scored[i].c) # ClauseId(scored[j].c)
       /\ scored[i].c \in SeqSet(clauses)
       /\ scored[j].c \in SeqSet(clauses)
  /\ \E i, j \in 1..Len(scored) :
       /\ ClauseId(scored[i].c) = ClauseId(scored[j].c)
       /\ scored[i].c.match_source = "Vector Match"
       /\ scored[j].c.match_source = "Keyword Fallback"

\* C10: the older-client path yields the same set of keyword candidates as
\* the or_ query would have for the same question, table and filters.
C10_OlderClientSameResult ==
  (pc = "Score" /\ keyword_path = "older_client") =>
    Ids(fallback_matches) =
      Ids(OrFilterQuery(store, Patterns(question, keywords), filters.tags,
                        filters.structure_type, filters.concern_level))

====
